---- MODULE Spec2Model ----
(***************************************************************************)
(* cartesia/_bytes.py: _BYTES.send posts a text-to-speech request and      *)
(* returns the concatenated audio bytes.  The model follows one send       *)
(* invocation: the call of the decorated generator function, the           *)
(* iteration of the generator by send's for loop, the POST, the status     *)
(* check, the chunks and the final join.  The HTTP transport is the        *)
(* environment; what it did on each attempt is recorded in wire.           *)
(***************************************************************************)
EXTENDS Integers, Sequences, FiniteSets, TLC

(* ---- bounds of the model ---- *)
MaxByte == 1
MaxChunkLen == 2
MaxChunks == 2
MaxDuration == 1
MaxCallChunks == 2
MaxCallByte == 1

(* ---- retry configuration (cartesia/_constants.py, imported at line 7) ---- *)
MAX_RETRIES == 3
BACKOFF_FACTOR == 1

VARIABLES
    pc,           \* position of the send invocation
    gen,          \* state of the generator object made by _bytes_generator_wrapper
    retry_count,  \* the decorator's loop counter
    delays,       \* the sleeps performed so far, in order
    posts,        \* number of requests.post calls issued
    wire,         \* per attempt: what the transport delivered
    faults,       \* the transport fails with a connection error on attempts 1..faults
    chunks,       \* send's list of chunks
    result,       \* <<>> or <<value returned by send>>
    error,        \* <<>> or <<exception that left send>>
    args,         \* the arguments of the send call
    client,       \* the _BYTES object: http_url, headers, timeout
    request_body, \* send's local request_body, <<>> before it is built
    posted,       \* the requests handed to requests.post, in order
    calls,        \* two concurrent send invocations on one client: each one's state
    buffers       \* the chunk lists that exist, by owner

vars == <<pc, gen, retry_count, delays, posts, wire, faults, chunks, result, error,
          args, client, request_body, posted, calls, buffers>>

Byte == 0..MaxByte

RECURSIVE SeqsUpTo(_, _)
SeqsUpTo(S, n) ==
    IF n = 0 THEN {<<>>}
    ELSE LET shorter == SeqsUpTo(S, n - 1)
         IN  shorter \cup {Append(s, x) : s \in {t \in shorter : Len(t) = n - 1}, x \in S}

Chunk == SeqsUpTo(Byte, MaxChunkLen)
Body == SeqsUpTo(Chunk, MaxChunks)
Status == {101, 200, 302, 404, 500}

(* ---- pure parts of the code ---- *)

\* variants of the status check: one that accepts every status, one that
\* accepts 2xx only
ResponseOk_always(status) == TRUE

ResponseOk_only2xx(status) == 200 <= status /\ status < 300

\* variant that treats only 5xx as a failure
ResponseOk_below500(status) == status < 500

\* requests' Response.ok as used at line 95: false exactly for 400..599
ResponseOk(status) == ~(400 <= status /\ status < 600)

\* b"".join(chunks), line 75
RECURSIVE Join(_)
Join(cs) == IF cs = <<>> THEN <<>> ELSE Head(cs) \o Join(Tail(cs))

\* variant that puts the new chunk in front
AppendChunk_prepend(cs, c) == <<c>> \o cs

\* chunks.append(chunk), line 73
AppendChunk(cs, c) == Append(cs, c)

\* response.text: the decoded body
ResponseText(body) == Join(body)

\* a connection-level exception raised by the transport
ConnectionError(reason) ==
    [type |-> "ConnectionError", prefix |-> <<reason>>, text |-> <<>>, cause |-> "none"]

\* ValueError(f"Failed to generate audio. {response.text}"), line 96
BadStatusError(text) ==
    [type |-> "ValueError", prefix |-> <<"Failed to generate audio. ">>, text |-> text,
     cause |-> "none"]

\* str(e): the message of an exception
ErrorMessage(e) == [prefix |-> e.prefix, text |-> e.text]

\* variant that raises a RuntimeError with a fixed message and no context
RuntimeErrorFrom_bare(e) ==
    [type |-> "RuntimeError", prefix |-> <<"Error generating audio. ">>, text |-> <<>>,
     cause |-> "none"]

\* raise RuntimeError(f"Error generating audio. {e}") inside except, line 86;
\* the exception being handled becomes the new one's context
RuntimeErrorFrom(e) ==
    [type |-> "RuntimeError", prefix |-> <<"Error generating audio. ">> \o e.prefix,
     text |-> e.text, cause |-> e.type]

NoError == [type |-> "none", prefix |-> <<>>, text |-> <<>>, cause |-> "none"]

\* a call or a generator step that ends without an exception
NoException == [raised |-> FALSE, error |-> NoError]

\* variant whose except clause swallows the exception and ends the generator
WrapperExcept_swallow(e) == NoException

\* variant whose except clause re-raises the exception it caught
WrapperExcept_reraise(e) == [raised |-> TRUE, error |-> e]

\* the except clause of _bytes_generator_wrapper, lines 85-86
WrapperExcept(e) == [raised |-> TRUE, error |-> RuntimeErrorFrom(e)]

\* variant in which the call runs the body at once and a connection error
\* leaves the call itself
WrapperCall_eager == [raised |-> TRUE, error |-> ConnectionError("connect")]

\* calling _bytes_generator_wrapper: its body yields, so the call only
\* creates the generator object and runs none of the body, lines 80-84
WrapperCall == NoException

\* variant in which a finished generator can be started again
GenFinished_restart == "created"

\* the state of a generator once an exception or a return has left its frame
GenFinished == "closed"

(* ---- the request payload, lines 55-68 and 89-94 ---- *)

\* an Optional argument is <<>> for None and <<v>> for the value v
None == <<>>

OutputFormats ==
    {[container |-> c, encoding |-> "pcm_f32le", sample_rate |-> 44100] :
        c \in {"raw", "mp3"}}
    \cup
    {[container |-> c, encoding |-> "pcm_f32le", sample_rate |-> 44100, bit_rate |-> 128] :
        c \in {"raw", "mp3"}}

Args ==
    [model_id : {"sonic-english", "sonic-multilingual"},
     transcript : {"Hello world!", ""},
     output_format : OutputFormats,
     voice : {[mode |-> "id", id |-> "v1"], [mode |-> "id", id |-> "v2"]},
     duration : {None} \cup {<<d>> : d \in 0..MaxDuration},
     language : {None, <<"en">>}]

\* the calls followed through the whole transport exchange
SampleArgs ==
    {a \in Args :
        /\ a.model_id = "sonic-english"
        /\ a.transcript = "Hello world!"
        /\ a.voice.id = "v1"
        /\ a.output_format.container = "raw"
        /\ \/ a.duration = None /\ a.language = None
                 /\ DOMAIN a.output_format = {"container", "encoding", "sample_rate"}
           \/ a.duration = <<0>> /\ a.language = <<"en">>
                 /\ "bit_rate" \in DOMAIN a.output_format}

Clients ==
    {[http_url |-> "https://api.cartesia.ai", headers |-> [api_key |-> k], timeout |-> t] :
        k \in {"key1", "key2"}, t \in {5, 30}}

DefaultClient ==
    [http_url |-> "https://api.cartesia.ai", headers |-> [api_key |-> "key1"], timeout |-> 30]

\* d[k] = v on a dict
SetItem(d, k, v) == [x \in DOMAIN d \cup {k} |-> IF x = k THEN v ELSE d[x]]

\* variant that passes the caller's mapping through
NarrowOutputFormat_passthrough(output_format) == output_format

\* the inner dict literal of lines 59-63
NarrowOutputFormat(output_format) ==
    [container |-> output_format.container,
     encoding |-> output_format.encoding,
     sample_rate |-> output_format.sample_rate]

\* variant that tests the truth value of duration instead of "is not None"
BuildRequestBody_truthy(a) ==
    LET body == [model_id |-> a.model_id, transcript |-> a.transcript, voice |-> a.voice,
                 output_format |-> NarrowOutputFormat(a.output_format),
                 language |-> a.language]
    IN  IF a.duration # None /\ a.duration[1] # 0
        THEN SetItem(body, "duration", a.duration[1])
        ELSE body

\* variant that leaves out a language that is None
BuildRequestBody_omitNone(a) ==
    LET body == [model_id |-> a.model_id, transcript |-> a.transcript, voice |-> a.voice,
                 output_format |-> NarrowOutputFormat(a.output_format)]
        withLanguage == IF a.language # None THEN SetItem(body, "language", a.language)
                        ELSE body
    IN  IF a.duration # None
        THEN SetItem(withLanguage, "duration", a.duration[1])
        ELSE withLanguage

\* request_body as built by lines 55-68
BuildRequestBody(a) ==
    LET body == [model_id |-> a.model_id, transcript |-> a.transcript, voice |-> a.voice,
                 output_format |-> NarrowOutputFormat(a.output_format),
                 language |-> a.language]
    IN  IF a.duration # None
        THEN SetItem(body, "duration", a.duration[1])
        ELSE body

\* json.dumps(request_body), line 91: every key is written, None as null
JsonDumps(d) ==
    [k \in DOMAIN d |->
        IF k = "language" /\ d[k] = None THEN <<"null">> ELSE <<"value", d[k]>>]

\* variant that passes no read timeout
PostRequest_noReadTimeout(c, body) ==
    [url |-> <<c.http_url, "/tts/bytes">>, data |-> JsonDumps(body),
     headers |-> c.headers, timeout |-> <<c.timeout, 0>>]

\* the arguments of requests.post, lines 89-94
PostRequest(c, body) ==
    [url |-> <<c.http_url, "/tts/bytes">>, data |-> JsonDumps(body),
     headers |-> c.headers, timeout |-> <<c.timeout, c.timeout>>]

(* ---- the retry decorator and its constants (cartesia/utils/retry.py) ---- *)

RetryableError(e) == e.type = "ConnectionError"

\* variant whose exponent is one too large
Delay_doubled(n) == BACKOFF_FACTOR * 2 ^ n

\* delay slept after the retry_count-th failure, i.e. before attempt retry_count + 1
Delay(n) == BACKOFF_FACTOR * 2 ^ (n - 1)

ExhaustedError(e) ==
    [type |-> "ExhaustedRetriesError", prefix |-> <<"retries exhausted. ">> \o e.prefix,
     text |-> e.text, cause |-> e.type]

\* one pass of the decorator's loop around the guarded call, given the call's outcome
RetryOnConnectionError(out) ==
    /\ pc = "guarded"
    /\ retry_count < MAX_RETRIES
    /\ IF out.raised /\ RetryableError(out.error)
       THEN /\ retry_count' = retry_count + 1
            /\ IF retry_count + 1 < MAX_RETRIES
               THEN /\ pc' = "guarded"
                    /\ delays' = Append(delays, Delay(retry_count + 1))
                    /\ error' = error
               ELSE /\ pc' = "failed"
                    /\ delays' = delays
                    /\ error' = <<ExhaustedError(out.error)>>
       ELSE IF out.raised
       THEN /\ pc' = "failed"
            /\ error' = <<out.error>>
            /\ UNCHANGED <<retry_count, delays>>
       ELSE /\ pc' = "iterating"
            /\ UNCHANGED <<retry_count, delays, error>>

(* ---- one send invocation ---- *)

Calls == 1..2

IdleCall ==
    [pc |-> "idle", posts |-> 0, status |-> 0, sent |-> <<>>, end |-> "none",
     result |-> <<>>, error |-> <<>>]

Init ==
    /\ pc = "idle"
    /\ gen = "none"
    /\ retry_count = 0
    /\ delays = <<>>
    /\ posts = 0
    /\ wire = <<>>
    /\ faults \in 0..MAX_RETRIES
    /\ chunks = <<>>
    /\ result = <<>>
    /\ error = <<>>
    /\ args \in SampleArgs
    /\ client = DefaultClient
    /\ request_body = <<>>
    /\ posted = <<>>
    /\ calls = [i \in Calls |-> IdleCall]
    /\ buffers = [i \in Calls |-> <<>>]

\* send is entered and reaches the call of the decorated method, lines 55-70
SendCall ==
    /\ pc = "idle"
    /\ pc' = "guarded"
    /\ retry_count' = 0
    /\ request_body' = BuildRequestBody(args)
    /\ UNCHANGED <<gen, delays, posts, wire, faults, chunks, result, error>>
    /\ UNCHANGED <<calls, buffers, args, client, posted>>

\* the decorator calls _bytes_generator_wrapper and hands its generator to send,
\* lines 70-71 and 77-80
GuardedCall ==
    /\ RetryOnConnectionError(WrapperCall)
    /\ gen' = IF WrapperCall.raised THEN gen ELSE "created"
    /\ UNCHANGED <<posts, wire, faults, chunks, result>>
    /\ UNCHANGED <<calls, buffers, args, client, request_body, posted>>

\* send's for loop sees the generator finish, by an exception or by a return,
\* lines 72-75
SendLoopEnd(out) ==
    /\ gen' = GenFinished
    /\ IF out.raised
       THEN /\ pc' = "failed"
            /\ error' = <<out.error>>
            /\ result' = result
       ELSE /\ pc' = "succeeded"
            /\ result' = <<[audio |-> Join(chunks)]>>
            /\ error' = error

\* the first next() runs the generator body up to the end of the status check,
\* lines 83, 89-96; Bodies are the bodies an error response may carry
ConnectWith(Bodies) ==
    /\ gen = "created"
    /\ posts' = posts + 1
    /\ posted' = Append(posted, PostRequest(client, request_body))
    /\ UNCHANGED <<retry_count, delays, faults, chunks>>
    /\ UNCHANGED <<calls, buffers, args, client, request_body>>
    /\ \/ /\ posts + 1 <= faults
          /\ wire' = Append(wire, [status |-> 0, sent |-> <<>>, end |-> "connect_error"])
          /\ SendLoopEnd(WrapperExcept(ConnectionError("connect")))
       \/ /\ posts + 1 <= faults
          /\ \E s \in {t \in Status : ResponseOk(t)} :
                wire' = Append(wire, [status |-> s, sent |-> <<>>, end |-> "open"])
          /\ gen' = "streaming"
          /\ UNCHANGED <<pc, result, error>>
       \/ /\ posts + 1 > faults
          /\ \E s \in Status :
                IF ResponseOk(s)
                THEN /\ wire' = Append(wire, [status |-> s, sent |-> <<>>, end |-> "open"])
                     /\ gen' = "streaming"
                     /\ UNCHANGED <<pc, result, error>>
                ELSE \E body \in Bodies :
                     /\ wire' = Append(wire, [status |-> s, sent |-> body, end |-> "closed"])
                     /\ SendLoopEnd(WrapperExcept(BadStatusError(ResponseText(body))))

Connect == ConnectWith(Body)

\* iter_content delivers a chunk, both generators yield it and send appends it,
\* lines 98-99, 83-84, 72-73; Cs are the chunks the transport may deliver
NextChunkWith(Cs) ==
    /\ gen = "streaming"
    /\ Len(wire[posts].sent) < MaxChunks
    /\ \E c \in Cs :
          /\ wire' = [wire EXCEPT ![posts].sent = Append(@, c)]
          /\ chunks' = AppendChunk(chunks, c)
    /\ UNCHANGED <<pc, gen, retry_count, delays, posts, faults, result, error>>
    /\ UNCHANGED <<calls, buffers, args, client, request_body, posted>>

NextChunk == NextChunkWith(Chunk)

\* the body ends: the generators return and send joins its chunks, lines 98, 83, 72-75
StreamEnd ==
    /\ gen = "streaming"
    /\ posts > faults
    /\ wire' = [wire EXCEPT ![posts].end = "closed"]
    /\ SendLoopEnd(NoException)
    /\ UNCHANGED <<retry_count, delays, posts, faults, chunks>>
    /\ UNCHANGED <<calls, buffers, args, client, request_body, posted>>

\* the connection breaks while the body is read, lines 98, 85-86
StreamBreak ==
    /\ gen = "streaming"
    /\ posts <= faults
    /\ wire' = [wire EXCEPT ![posts].end = "stream_error"]
    /\ SendLoopEnd(WrapperExcept(ConnectionError("stream")))
    /\ UNCHANGED <<retry_count, delays, posts, faults, chunks>>
    /\ UNCHANGED <<calls, buffers, args, client, request_body, posted>>

Next ==
    \/ SendCall
    \/ GuardedCall
    \/ Connect
    \/ NextChunk
    \/ StreamEnd
    \/ StreamBreak

Spec == Init /\ [][Next]_vars

\* the same invocation with a transport whose streams have every length up to
\* MaxChunks but whose chunks are empty or the single byte 0
FairChunk == {<<>>, <<0>>}

ConnectFair == ConnectWith(SeqsUpTo(FairChunk, 1))

NextChunkFair == NextChunkWith(FairChunk)

NextFair ==
    \/ SendCall
    \/ GuardedCall
    \/ ConnectFair
    \/ NextChunkFair
    \/ StreamEnd
    \/ StreamBreak

\* the invocation is one thread that always takes its next step, and every
\* attempt of the transport fails or delivers a finite stream
SpecFair == Init /\ [][NextFair]_vars /\ WF_vars(NextFair)

(* ---- the retry design on its own: the decorator guarding a call that ---- *)
(* ---- performs a whole attempt and raises from the call itself         ---- *)

\* one guarded attempt: POST, status check and the whole stream inside the call
RetryAttempt ==
    /\ pc = "guarded"
    /\ gen = "none"
    /\ posts' = posts + 1
    /\ posted' = Append(posted, PostRequest(client, request_body))
    /\ UNCHANGED <<gen, faults, result>>
    /\ UNCHANGED <<calls, buffers, args, client, request_body>>
    /\ \/ /\ posts + 1 <= faults
          /\ \E e \in {"connect_error", "stream_error"} :
                /\ wire' = Append(wire, [status |-> IF e = "connect_error" THEN 0 ELSE 200,
                                         sent |-> <<>>, end |-> e])
                /\ RetryOnConnectionError([raised |-> TRUE, error |-> ConnectionError(e)])
          /\ chunks' = chunks
       \/ /\ posts + 1 > faults
          /\ \E s \in Status, body \in Body :
                /\ wire' = Append(wire, [status |-> s, sent |-> body, end |-> "closed"])
                /\ IF ResponseOk(s)
                   THEN /\ RetryOnConnectionError(NoException)
                        /\ chunks' = body
                   ELSE /\ RetryOnConnectionError(
                              [raised |-> TRUE, error |-> BadStatusError(ResponseText(body))])
                        /\ chunks' = chunks

\* the collected chunks are joined and returned
RetryCollect ==
    /\ pc = "iterating"
    /\ gen = "none"
    /\ pc' = "succeeded"
    /\ result' = <<[audio |-> Join(chunks)]>>
    /\ UNCHANGED <<gen, retry_count, delays, posts, wire, faults, chunks, error>>
    /\ UNCHANGED <<calls, buffers, args, client, request_body, posted>>

NextRetry ==
    \/ SendCall
    \/ RetryAttempt
    \/ RetryCollect

SpecRetry == Init /\ [][NextRetry]_vars

(* ---- the request path for every argument combination, under a transport ---- *)
(* ---- that fails each attempt before it delivers a chunk                 ---- *)

InitPayload ==
    /\ pc = "idle"
    /\ gen = "none"
    /\ retry_count = 0
    /\ delays = <<>>
    /\ posts = 0
    /\ wire = <<>>
    /\ faults = MAX_RETRIES
    /\ chunks = <<>>
    /\ result = <<>>
    /\ error = <<>>
    /\ args \in Args
    /\ client \in Clients
    /\ request_body = <<>>
    /\ posted = <<>>
    /\ calls = [i \in Calls |-> IdleCall]
    /\ buffers = [i \in Calls |-> <<>>]

NextPayload ==
    \/ SendCall
    \/ GuardedCall
    \/ Connect
    \/ StreamBreak

SpecPayload == InitPayload /\ [][NextPayload]_vars

(* ---- two send invocations on one client, interleaved ---- *)

CallChunk == {<<b>> : b \in 0..MaxCallByte}

\* variant in which the chunk list is kept on the shared client object
BufferOf_shared(i) == 1

\* chunks is a local of the invocation, line 71
BufferOf(i) == i

\* lines 55-71: the payload is built, the decorated call returns the
\* invocation's own generator, and chunks = []
TwoSend(i) ==
    /\ calls[i].pc = "idle"
    /\ calls' = [calls EXCEPT ![i].pc = "iterating"]
    /\ buffers' = [buffers EXCEPT ![BufferOf(i)] = <<>>]

\* the first next(): requests.post on a connection of its own and the status
\* check, lines 89-96
TwoConnect(i) ==
    /\ calls[i].pc = "iterating"
    /\ \/ calls' = [calls EXCEPT ![i].pc = "failed", ![i].posts = @ + 1,
                                  ![i].end = "connect_error",
                                  ![i].error =
                                      <<WrapperExcept(ConnectionError("connect")).error>>]
       \/ \E s \in Status :
             IF ResponseOk(s)
             THEN calls' = [calls EXCEPT ![i].pc = "streaming", ![i].posts = @ + 1,
                                         ![i].status = s, ![i].end = "open"]
             ELSE calls' = [calls EXCEPT ![i].pc = "failed", ![i].posts = @ + 1,
                                         ![i].status = s, ![i].end = "closed",
                                         ![i].error =
                                             <<WrapperExcept(BadStatusError(<<>>)).error>>]
    /\ UNCHANGED buffers

\* a chunk arrives on the invocation's connection and is appended, lines 98-99, 72-73
TwoChunk(i) ==
    /\ calls[i].pc = "streaming"
    /\ Len(calls[i].sent) < MaxCallChunks
    /\ \E c \in CallChunk :
          /\ calls' = [calls EXCEPT ![i].sent = Append(@, c)]
          /\ buffers' = [buffers EXCEPT ![BufferOf(i)] = AppendChunk(@, c)]

\* the stream ends and send returns the joined chunks, lines 72-75
TwoEnd(i) ==
    /\ calls[i].pc = "streaming"
    /\ calls' = [calls EXCEPT ![i].pc = "succeeded", ![i].end = "closed",
                               ![i].result = <<[audio |-> Join(buffers[BufferOf(i)])]>>]
    /\ UNCHANGED buffers

\* the connection breaks in mid-stream, lines 98, 85-86
TwoBreak(i) ==
    /\ calls[i].pc = "streaming"
    /\ calls' = [calls EXCEPT ![i].pc = "failed", ![i].end = "stream_error",
                               ![i].error =
                                   <<WrapperExcept(ConnectionError("stream")).error>>]
    /\ UNCHANGED buffers

\* the state of the single invocation followed above, untouched here
single == <<pc, gen, retry_count, delays, posts, wire, faults, chunks, result, error,
            args, client, request_body, posted>>

InitTwo ==
    /\ Init
    /\ faults = 0
    /\ args.duration = None

NextTwo ==
    \/ \E i \in Calls : TwoSend(i) /\ UNCHANGED single
    \/ \E i \in Calls : TwoConnect(i) /\ UNCHANGED single
    \/ \E i \in Calls : TwoChunk(i) /\ UNCHANGED single
    \/ \E i \in Calls : TwoEnd(i) /\ UNCHANGED single
    \/ \E i \in Calls : TwoBreak(i) /\ UNCHANGED single

SpecTwo == InitTwo /\ [][NextTwo]_vars

(* ---- sanity of the model ---- *)

Terminal == {"succeeded", "failed"}

TypeOK ==
    /\ pc \in {"idle", "guarded", "iterating", "succeeded", "failed"}
    /\ gen \in {"none", "created", "streaming", "closed"}
    /\ retry_count \in 0..MAX_RETRIES
    /\ posts \in 0..MAX_RETRIES
    /\ Len(wire) = posts
    /\ Len(posted) = posts
    /\ args \in Args
    /\ client \in Clients
    /\ faults \in 0..MAX_RETRIES
    /\ Len(result) <= 1
    /\ Len(error) <= 1
    /\ (gen \in {"created", "streaming"}) => pc = "iterating"

(* ---- vocabulary of the properties ---- *)

\* the bytes of a chunk sequence in arrival order, last chunk last
RECURSIVE ConcatInOrder(_)
ConcatInOrder(cs) ==
    IF cs = <<>> THEN <<>>
    ELSE ConcatInOrder(SubSeq(cs, 1, Len(cs) - 1)) \o cs[Len(cs)]

HasResponse(i) == wire[i].end # "connect_error"
ConnectionFailed(i) == wire[i].end \in {"connect_error", "stream_error"}
Is2xx(status) == 200 <= status /\ status < 300
NoBadStatus == \A i \in 1..Len(wire) : HasResponse(i) => ResponseOk(wire[i].status)

\* C1: a transport that fails with a connection error on the first k < MAX_RETRIES
\* attempts and succeeds on attempt k+1 makes send return the bytes of attempt
\* k+1 after exactly k delays.
C1_RetryThenSucceed ==
    (faults < MAX_RETRIES /\ NoBadStatus /\ pc \in Terminal) =>
        /\ pc = "succeeded"
        /\ posts = faults + 1
        /\ result = <<[audio |-> ConcatInOrder(wire[faults + 1].sent)]>>
        /\ Len(delays) = faults

\* C2: a transport that fails with a connection error on every attempt makes
\* send raise after exactly MAX_RETRIES POST requests.
C2_ExactlyMaxRetriesAttempts ==
    /\ posts <= MAX_RETRIES
    /\ (faults = MAX_RETRIES /\ pc \in Terminal) => (pc = "failed" /\ posts = MAX_RETRIES)

\* C3: an attempt answered with a failure status is terminal: send has raised
\* with the status error, that attempt is the last one, no delay follows it,
\* and every attempt that was followed by another one ended in a connection error.
C3_BadStatusNotRetried ==
    /\ \A i \in 1..posts :
          (HasResponse(i) /\ wire[i].status >= 400) =>
              /\ i = posts
              /\ pc = "failed"
              /\ Len(error) = 1
              /\ error[1].cause = "ValueError"
              /\ Len(delays) <= i - 1
    /\ \A i \in 1..(posts - 1) : ConnectionFailed(i)

C3_Witness ==
    /\ pc = "failed"
    /\ posts = 1
    /\ wire[1].status = 500
    /\ wire[1].sent = <<<<0, 1>>>>
    /\ delays = <<>>

\* C4: after a connection error in mid-stream, with attempts left, the attempt
\* is restarted from connecting, and the audio returned holds only the chunks
\* of the attempt that succeeded.
C4_MidStreamRestart ==
    /\ \A i \in 1..posts :
          (/\ wire[i].end = "stream_error"
           /\ Len(wire[i].sent) >= 1
           /\ i < MAX_RETRIES
           /\ pc \in Terminal) => posts > i
    /\ pc = "succeeded" =>
          /\ wire[posts].end = "closed"
          /\ result = <<[audio |-> ConcatInOrder(wire[posts].sent)]>>

\* C5: send has no partial success: a returned value is the full concatenation
\* of an attempt whose stream closed normally, and a send that raised has
\* returned nothing.
C5_NoPartialSuccess ==
    /\ result # <<>> =>
          /\ pc = "succeeded"
          /\ error = <<>>
          /\ wire[posts].end = "closed"
          /\ result = <<[audio |-> ConcatInOrder(wire[posts].sent)]>>
    /\ pc = "succeeded" => result # <<>>
    /\ pc = "failed" => (result = <<>> /\ error # <<>>)

C5_Witness ==
    /\ pc = "failed"
    /\ wire[posts].end = "stream_error"
    /\ Len(wire[posts].sent) = 2
    /\ chunks = wire[posts].sent
    /\ result = <<>>

\* C6: when the first attempt streams chunks c1..cn under a 2xx status and
\* closes normally, send returns exactly c1 ++ ... ++ cn.
C6_ConcatenationInArrivalOrder ==
    (posts >= 1 /\ Is2xx(wire[1].status) /\ wire[1].end = "closed") =>
        /\ pc = "succeeded"
        /\ result = <<[audio |-> ConcatInOrder(wire[1].sent)]>>
        /\ Len(result[1].audio) = Len(ConcatInOrder(wire[1].sent))

C6_Witness ==
    /\ pc = "succeeded"
    /\ wire[1].status = 200
    /\ wire[1].sent = <<<<0, 1>>, <<1, 1>>>>
    /\ result = <<[audio |-> <<0, 1, 1, 1>>]>>

\* C7 as stated: every response whose status is not 2xx makes send raise with
\* the body text and no audio; only a 2xx body is streamed.
C7_Non2xxRaises ==
    \A i \in 1..posts :
        (HasResponse(i) /\ ~Is2xx(wire[i].status)) =>
            /\ pc = "failed"
            /\ Len(error) = 1
            /\ error[1].text = ConcatInOrder(wire[i].sent)
            /\ result = <<>>
            /\ chunks = <<>>

\* C7 amended: every response whose status is 4xx or 5xx makes send raise an
\* error whose message carries the body text, with no audio; a response with
\* any status below 400 has its body streamed as audio.
C7_ErrorStatusRaises ==
    \A i \in 1..posts :
        /\ (HasResponse(i) /\ wire[i].status >= 400) =>
              /\ pc = "failed"
              /\ Len(error) = 1
              /\ error[1].prefix =
                    <<"Error generating audio. ", "Failed to generate audio. ">>
              /\ error[1].text = ConcatInOrder(wire[i].sent)
              /\ result = <<>>
              /\ chunks = <<>>
        /\ (HasResponse(i) /\ wire[i].status < 400) =>
              /\ chunks = wire[i].sent
              /\ pc = "failed" => wire[i].end = "stream_error"

C7_Witness ==
    /\ pc = "succeeded"
    /\ wire[1].status = 302
    /\ result = <<[audio |-> <<1, 0>>]>>

C9_SurfacedErrorCarriesCause ==
    (faults = MAX_RETRIES /\ pc \in Terminal) =>
        /\ pc = "failed"
        /\ Len(error) = 1
        /\ error[1].type = "RuntimeError"
        /\ error[1].cause = "ConnectionError"
        /\ ConnectionFailed(posts)
        /\ error[1].prefix =
              <<"Error generating audio. ",
                IF wire[posts].end = "connect_error" THEN "connect" ELSE "stream">>

C9_Witness ==
    /\ faults = MAX_RETRIES
    /\ pc = "failed"
    /\ wire[posts].end = "stream_error"
    /\ Len(wire[posts].sent) >= 1

\* C10: once send has returned or raised, the invocation makes no further
\* transition: no POST, no delay, no chunk, no change of result or error.
C10_TerminalAbsorbing ==
    [][(pc \in Terminal) =>
          (/\ pc' = pc
           /\ posts' = posts
           /\ delays' = delays
           /\ chunks' = chunks
           /\ wire' = wire
           /\ result' = result
           /\ error' = error)]_vars

C10_Witness ==
    /\ pc = "succeeded"
    /\ gen = "closed"
    /\ posts = 1
    /\ Len(chunks) >= 1

FormatKeys == {"container", "encoding", "sample_rate"}

\* C11: the payload has a "duration" key exactly when the caller supplied a
\* duration, the value 0 included, and the key then holds the caller's value.
C11_DurationOnlyWhenSupplied ==
    pc # "idle" =>
        /\ ("duration" \in DOMAIN request_body) <=> (args.duration # None)
        /\ args.duration # None => request_body["duration"] = args.duration[1]
        /\ \A i \in 1..Len(posted) :
              ("duration" \in DOMAIN posted[i].data) <=> (args.duration # None)

C11_Witness ==
    /\ pc # "idle"
    /\ args.duration = <<0>>
    /\ "duration" \in DOMAIN request_body
    /\ request_body["duration"] = 0

\* C12: whatever extra keys the caller's output_format has, the payload's
\* output_format has exactly the keys container, encoding and sample_rate,
\* each with the caller's value.
C12_OutputFormatNarrowed ==
    pc # "idle" =>
        /\ DOMAIN request_body["output_format"] = FormatKeys
        /\ \A k \in FormatKeys : request_body["output_format"][k] = args.output_format[k]

C12_Witness ==
    /\ pc # "idle"
    /\ "bit_rate" \in DOMAIN args.output_format
    /\ args.output_format.container = "mp3"
    /\ request_body["output_format"] =
          [container |-> "mp3", encoding |-> "pcm_f32le", sample_rate |-> 44100]

\* C13: the payload always has a "language" key, null when the caller gave no
\* language and the caller's value otherwise, and model_id, transcript and
\* voice are the caller's values.
C13_LanguageAlwaysPresent ==
    pc # "idle" =>
        /\ "language" \in DOMAIN request_body
        /\ request_body["language"] = args.language
        /\ request_body["model_id"] = args.model_id
        /\ request_body["transcript"] = args.transcript
        /\ request_body["voice"] = args.voice
        /\ \A i \in 1..Len(posted) :
              /\ "language" \in DOMAIN posted[i].data
              /\ posted[i].data["language"] =
                    IF args.language = None THEN <<"null">> ELSE <<"value", args.language>>

C13_Witness ==
    /\ Len(posted) = 1
    /\ args.language = None
    /\ args.duration = None
    /\ posted[1].data["language"] = <<"null">>

\* C18: the payload is built once, before the first attempt; every attempt
\* posts that payload to {http_url}/tts/bytes with the client's headers and
\* the pair (timeout, timeout); the client's configuration and the caller's
\* arguments are never changed.
C18_SamePayloadAndFrame ==
    [][/\ client' = client
       /\ args' = args
       /\ request_body' # request_body => (pc = "idle" /\ posts = 0)
       /\ \A i \in 1..Len(posted') :
             /\ posted'[i].url = <<client.http_url, "/tts/bytes">>
             /\ posted'[i].headers = client.headers
             /\ posted'[i].timeout = <<client.timeout, client.timeout>>
             /\ DOMAIN posted'[i].data = DOMAIN request_body'
             /\ posted'[i].data["transcript"] = <<"value", args.transcript>>
             /\ posted'[i].data["voice"] = <<"value", args.voice>>
             /\ posted'[i] = posted'[1]]_vars

C18_Witness ==
    /\ Len(posted) = 1
    /\ pc = "failed"
    /\ client.timeout = 5
    /\ posted[1].timeout = <<5, 5>>
    /\ args.voice.id = "v2"

\* C16: whatever is raised while an attempt runs, the bad-status ValueError or
\* a connection error, leaves send as a RuntimeError whose message is
\* "Error generating audio. " followed by the original message; the error is
\* never of a type the retry decorator retries.
C16_EveryErrorWrapped ==
    error # <<>> =>
        /\ error[1].type = "RuntimeError"
        /\ ~RetryableError(error[1])
        /\ error[1].prefix[1] = "Error generating audio. "
        /\ IF ConnectionFailed(posts)
           THEN /\ error[1].cause = "ConnectionError"
                /\ Len(error[1].prefix) = 2
                /\ error[1].prefix[2] \in {"connect", "stream"}
                /\ error[1].text = <<>>
           ELSE /\ wire[posts].status >= 400
                /\ error[1].cause = "ValueError"
                /\ error[1].prefix[2] = "Failed to generate audio. "
                /\ error[1].text = ConcatInOrder(wire[posts].sent)

C16_Witness ==
    /\ pc = "failed"
    /\ wire[1].status = 404
    /\ error[1].type = "RuntimeError"
    /\ error[1].cause = "ValueError"
    /\ error[1].text = <<1>>

\* C17: the call guarded by the decorator returns a fresh generator with no
\* POST made; the decorator never counts a failure or sleeps; an error of the
\* connection or of the stream is raised while send iterates, after exactly
\* one POST, and no attempt follows it.
C17_ErrorsRaisedOutsideGuardedCall ==
    /\ gen = "created" => (pc = "iterating" /\ posts = 0 /\ wire = <<>> /\ error = <<>>)
    /\ pc \in {"iterating", "succeeded", "failed"} => (retry_count = 0 /\ delays = <<>>)
    /\ pc = "failed" => (posts = 1 /\ gen = "closed" /\ Len(error) = 1)
    /\ posts <= 1

C17_Witness ==
    /\ pc = "failed"
    /\ faults = MAX_RETRIES
    /\ posts = 1
    /\ wire[1].end = "connect_error"
    /\ retry_count = 0
    /\ delays = <<>>

\* C19: a chunk is appended to send's list only while the generator is
\* streaming a response whose status passed the check; no chunk of a
\* response with a failure status is ever appended.
C19_StatusCheckBeforeStreaming ==
    [][chunks' # chunks =>
          /\ pc = "iterating"
          /\ gen = "streaming"
          /\ posts >= 1
          /\ wire[posts].end = "open"
          /\ wire[posts].status < 400
          /\ chunks' = wire'[posts].sent]_vars

C19_Witness ==
    /\ pc = "iterating"
    /\ gen = "streaming"
    /\ wire[1].status = 200
    /\ chunks = <<<<0, 1>>>>

\* C15: every send invocation terminates, and at every moment the number of
\* POST requests it has made lies between 0 and MAX_RETRIES.
C15_TerminatesWithBoundedAttempts ==
    /\ [](posts \in 0..MAX_RETRIES)
    /\ <>(pc \in Terminal)

C15_Witness ==
    /\ pc = "succeeded"
    /\ posts = 1
    /\ Len(wire[1].sent) = MaxChunks

\* C14: under every interleaving of two send invocations on one client, the
\* audio an invocation returns is the concatenation of the chunks of its own
\* connection, its list holds exactly those chunks while it streams, and its
\* count of POSTs is that of its own connection.
C14_NoSharedState ==
    \A i \in Calls :
        /\ calls[i].pc = "succeeded" =>
              calls[i].result = <<[audio |-> ConcatInOrder(calls[i].sent)]>>
        /\ calls[i].pc = "streaming" => buffers[i] = calls[i].sent
        /\ calls[i].posts = IF calls[i].end = "none" THEN 0 ELSE 1
        /\ calls[i].pc = "failed" => calls[i].result = <<>>

C14_Witness ==
    /\ calls[1].pc = "succeeded"
    /\ calls[2].pc = "succeeded"
    /\ calls[1].result = <<[audio |-> <<0, 1>>]>>
    /\ calls[2].result = <<[audio |-> <<1, 0>>]>>

====
